---- MODULE Spec2Model ----
(***************************************************************************)
(* A model of the console sales-record keeper p01_sales_g08: the two       *)
(* module variants p01_m_sales_g08.py ("g08") and p01beg_m_sales.py        *)
(* ("beg").  Text is a sequence of one-character strings, so that slicing, *)
(* str.isdigit, int(), float(), repr() and Path.name are computed and not  *)
(* assumed.  A float is kept exactly, in hundredths.                       *)
(***************************************************************************)
EXTENDS Integers, Sequences, FiniteSets, TLC

VARIABLES
    variant,          \* "g08" | "beg": which module runs
    pc,               \* position of the session (which input() it waits at)
    sales_list,       \* the in-memory sales collection (list of dicts)
    ledger,           \* the file IMPORTED_FILES in the working directory
    store,            \* the file ALL_SALES (the working directory is FILEPATH)
    locals,           \* local variables of a running add_sales1 / add_sales2
    last,             \* what the last operation printed, raised and touched
    succeeded,        \* history: file names whose interactive import merged
    arg,              \* argument of a function applied on its own
    ret               \* its result

vars == <<variant, pc, sales_list, ledger, store, locals, last, succeeded, arg, ret>>

(***************************************************************************)
(* Bounds of the model.                                                    *)
(***************************************************************************)
MaxSales == 2       \* longest sales collection of a session
MaxRows == 2        \* most rows of a file given to import_sales(Path) on its own
MaxView == 2        \* longest collection handed to view_sales on its own
MaxSaved == 2       \* longest collection saved and loaded again

(***************************************************************************)
(* Text.                                                                   *)
(***************************************************************************)
DecimalDigits == <<"0", "1", "2", "3", "4", "5", "6", "7", "8", "9">>

Digits == {DecimalDigits[i] : i \in 1..10}

\* U+00B2 SUPERSCRIPT TWO: str.isdigit() is True for it, int() rejects it.
SuperscriptTwo == "sup2"

\* U+000C FORM FEED: a character input() returns and str.splitlines() splits at
FormFeed == "ff"

NewLine == "\n"

\* the line boundaries of str.splitlines() within the input alphabet
LineBoundaries == {NewLine, FormFeed}

UpperLetters == <<"A", "B", "C", "D", "E", "F", "G", "H", "I", "J", "K", "L", "M",
                  "N", "O", "P", "Q", "R", "S", "T", "U", "V", "W", "X", "Y", "Z">>

LowerLetters == <<"a", "b", "c", "d", "e", "f", "g", "h", "i", "j", "k", "l", "m",
                  "n", "o", "p", "q", "r", "s", "t", "u", "v", "w", "x", "y", "z">>

DigitVal(c) == (CHOOSE i \in 1..10 : DecimalDigits[i] = c) - 1

LowerChar(c) ==
    IF \E i \in 1..26 : UpperLetters[i] = c
    THEN LowerLetters[CHOOSE i \in 1..26 : UpperLetters[i] = c]
    ELSE c

\* str.lower()
Lower(s) == [i \in 1..Len(s) |-> LowerChar(s[i])]

Min(a, b) == IF a < b THEN a ELSE b

\* s[a:b] with 0 <= a, 0 <= b (Python slice, 0-based, end clipped)
Slice(s, a, b) == SubSeq(s, a + 1, Min(b, Len(s)))

\* s[i] (Python index, 0-based, 0 <= i < len(s))
At(s, i) == s[i + 1]

RECURSIVE LStrip(_)
LStrip(s) == IF Len(s) > 0 /\ Head(s) = " " THEN LStrip(Tail(s)) ELSE s

RECURSIVE RStrip(_)
RStrip(s) ==
    IF Len(s) > 0 /\ s[Len(s)] = " " THEN RStrip(SubSeq(s, 1, Len(s) - 1)) ELSE s

\* str.strip() (blanks are the only whitespace of the input alphabet)
Strip(s) == RStrip(LStrip(s))

\* str.isdigit()
IsDigit(s) == Len(s) > 0 /\ \A i \in 1..Len(s) : s[i] \in Digits \cup {SuperscriptTwo}

AllDecimal(s) == Len(s) > 0 /\ \A i \in 1..Len(s) : s[i] \in Digits

RECURSIVE DecimalValue(_)
DecimalValue(s) ==
    IF Len(s) = 0 THEN 0
    ELSE 10 * DecimalValue(SubSeq(s, 1, Len(s) - 1)) + DigitVal(s[Len(s)])

\* int(text): blanks stripped, an optional sign, decimal digits; else ValueError
ParseInt(s) ==
    LET t == Strip(s)
        signed == Len(t) > 0 /\ t[1] \in {"+", "-"}
        body == IF signed THEN Tail(t) ELSE t
    IN  IF AllDecimal(body)
        THEN [ok |-> TRUE,
              val |-> IF signed /\ t[1] = "-" THEN 0 - DecimalValue(body)
                      ELSE DecimalValue(body)]
        ELSE [ok |-> FALSE, val |-> 0]

\* Position of the first "." of s, or 0
DotAt(s) == IF \E i \in 1..Len(s) : s[i] = "."
            THEN CHOOSE i \in 1..Len(s) : s[i] = "." /\ \A j \in 1..(i - 1) : s[j] # "."
            ELSE 0

\* float(text) for decimal text of at most two fraction digits: blanks stripped,
\* an optional sign, digits with an optional point; anything else is ValueError.
\* The value is in hundredths.
ParseFloat(s) ==
    LET t == Strip(s)
        signed == Len(t) > 0 /\ t[1] \in {"+", "-"}
        body == IF signed THEN Tail(t) ELSE t
        d == DotAt(body)
        ip == IF d = 0 THEN body ELSE SubSeq(body, 1, d - 1)
        fp == IF d = 0 THEN <<>> ELSE SubSeq(body, d + 1, Len(body))
        wellformed == /\ Len(ip) + Len(fp) > 0
                      /\ \A i \in 1..Len(ip) : ip[i] \in Digits
                      /\ \A i \in 1..Len(fp) : fp[i] \in Digits
                      /\ Len(fp) <= 2
        frac == IF Len(fp) = 0 THEN 0
                ELSE IF Len(fp) = 1 THEN 10 * DigitVal(fp[1])
                ELSE 10 * DigitVal(fp[1]) + DigitVal(fp[2])
        mag == 100 * DecimalValue(ip) + frac
    IN  IF wellformed
        THEN [ok |-> TRUE, val |-> IF signed /\ t[1] = "-" THEN 0 - mag ELSE mag]
        ELSE [ok |-> FALSE, val |-> 0]

RECURSIVE NatText(_)
\* str(n) for n >= 0
NatText(n) ==
    IF n < 10 THEN <<DecimalDigits[n + 1]>>
    ELSE NatText(n \div 10) \o <<DecimalDigits[(n % 10) + 1]>>

\* f"{n:02d}" for n >= 0
Pad2(n) == IF n < 10 THEN <<"0">> \o NatText(n) ELSE NatText(n)

\* repr(x) of a float x given in hundredths (positional notation)
FloatText(v) ==
    LET mag == IF v < 0 THEN 0 - v ELSE v
        f == mag % 100
        ft == IF f % 10 = 0 THEN NatText(f \div 10) ELSE Pad2(f)
    IN  (IF v < 0 THEN <<"-">> ELSE <<>>) \o NatText(mag \div 100) \o <<".">> \o ft

(***************************************************************************)
(* Values: a dict field holds a float or a str.                            *)
(***************************************************************************)
Float(v) == [kind |-> "float", val |-> v, text |-> <<>>]

Str(s) == [kind |-> "str", val |-> 0, text |-> s]

BadMarker == <<"?">>

INVALID == <<"I", "N", "V", "A", "L", "I", "D">>

West == <<"W", "e", "s", "t">>

Mountain == <<"M", "o", "u", "n", "t", "a", "i", "n">>

Central == <<"C", "e", "n", "t", "r", "a", "l">>

East == <<"E", "a", "s", "t">>

MIN_YEAR == 2000

MAX_YEAR == 2999

NAMING_CONVENTION ==
    <<"s", "a", "l", "e", "s", "_", "q", "n", "_", "y", "y", "y", "y", "_", "r",
      ".", "c", "s", "v">>

VALID_REGION_CODES == {<<"w">>, <<"m">>, <<"c">>, <<"e">>}

VALID_REGIONS(code) ==
    CASE code = <<"w">> -> West
      [] code = <<"m">> -> Mountain
      [] code = <<"c">> -> Central
      [] code = <<"e">> -> East

(***************************************************************************)
(* Validators.                                                             *)
(***************************************************************************)
\* is_leap_year with the Julian rule: every fourth year
is_leap_year_every_fourth(year) == year % 4 = 0

is_leap_year(year) ==
    IF year % 400 = 0 THEN TRUE
    ELSE IF year % 100 = 0 THEN FALSE
    ELSE IF year % 4 = 0 THEN TRUE
    ELSE FALSE

cal_max_day(year, month) ==
    IF is_leap_year(year) /\ month = 2 THEN 29
    ELSE IF month = 2 THEN 28
    ELSE IF month \in {4, 6, 9, 11} THEN 30
    ELSE 31

is_valid_region(region_code) == Lower(region_code) \in VALID_REGION_CODES

get_region_name(region_code) ==
    IF Lower(region_code) \in VALID_REGION_CODES
    THEN VALID_REGIONS(Lower(region_code))
    ELSE INVALID

cal_quarter(month) ==
    IF month \in {1, 2, 3} THEN 1
    ELSE IF month \in {4, 5, 6} THEN 2
    ELSE IF month \in {7, 8, 9} THEN 3
    ELSE IF month \in {10, 11, 12} THEN 4
    ELSE 0

is_valid_filename_format(filename) ==
    /\ Len(filename) = Len(NAMING_CONVENTION)
    /\ Slice(filename, 0, 7) = Slice(NAMING_CONVENTION, 0, 7)
    /\ At(filename, 8) = At(NAMING_CONVENTION, 8)
    /\ At(filename, 13) = At(NAMING_CONVENTION, Len(NAMING_CONVENTION) - 6)
    /\ Slice(filename, Len(filename) - 4, Len(filename))
         = Slice(NAMING_CONVENTION, Len(NAMING_CONVENTION) - 4, Len(NAMING_CONVENTION))

\* get_region_code returning the character as typed, without .lower()
get_region_code_as_typed(sales_filename) ==
    IF is_valid_filename_format(sales_filename)
    THEN <<At(sales_filename, Len(sales_filename) - 5)>>
    ELSE INVALID

get_region_code(sales_filename) ==
    IF is_valid_filename_format(sales_filename)
    THEN Lower(<<At(sales_filename, Len(sales_filename) - 5)>>)
    ELSE INVALID

\* Path(...).name of FILEPATH / filename: the part after the last "/"
PathName(filename) ==
    IF \E i \in 1..Len(filename) : filename[i] = "/"
    THEN LET k == CHOOSE i \in 1..Len(filename) :
                     filename[i] = "/" /\ \A j \in (i + 1)..Len(filename) : filename[j] # "/"
         IN  SubSeq(filename, k + 1, Len(filename))
    ELSE filename

(***************************************************************************)
(* Row coercion.                                                           *)
(***************************************************************************)
\* The shape test of a date: lines 180-181 (and 141-143 of input_date)
DateShape(s) ==
    /\ Len(s) = 10
    /\ At(s, 4) = "-"
    /\ At(s, 7) = "-"
    /\ IsDigit(Slice(s, 0, 4))
    /\ IsDigit(Slice(s, 5, 7))
    /\ IsDigit(Slice(s, 8, 10))

\* int() of the three parts raises ValueError on a digit that is no decimal
DateIntsOk(s) ==
    /\ AllDecimal(Slice(s, 0, 4))
    /\ AllDecimal(Slice(s, 5, 7))
    /\ AllDecimal(Slice(s, 8, 10))

DateDayOk(s) ==
    LET yyyy == DecimalValue(Slice(s, 0, 4))
        mm == DecimalValue(Slice(s, 5, 7))
        dd == DecimalValue(Slice(s, 8, 10))
    IN  (1 <= mm /\ mm <= 12) /\ (1 <= dd /\ dd <= cal_max_day(yyyy, mm))

\* correct_data_types(row): row is the list of str that csv.reader yields.
\* raised is "" when the call returns; amount and sales_date are row[0], row[1]
\* as the call leaves them.
correct_data_types(row) ==
    IF Len(row) < 1
    THEN [raised |-> "IndexError", amount |-> Str(<<>>), sales_date |-> <<>>]
    ELSE
      LET f == ParseFloat(row[1])
          amount == IF f.ok THEN Float(f.val) ELSE Str(BadMarker)
      IN  IF Len(row) < 2
          THEN [raised |-> "IndexError", amount |-> amount, sales_date |-> <<>>]
          ELSE IF DateShape(row[2])
               THEN IF ~DateIntsOk(row[2])
                    THEN [raised |-> "ValueError", amount |-> amount, sales_date |-> row[2]]
                    ELSE IF ~DateDayOk(row[2])
                         THEN [raised |-> "", amount |-> amount, sales_date |-> BadMarker]
                         ELSE [raised |-> "", amount |-> amount, sales_date |-> row[2]]
               ELSE [raised |-> "", amount |-> amount, sales_date |-> BadMarker]

has_bad_amount(data) == data.amount = Str(BadMarker)

has_bad_date(data) == data.sales_date = BadMarker

has_bad_data(data) == has_bad_amount(data) \/ has_bad_date(data)

(***************************************************************************)
(* Files.  A csv file is the list of rows csv.reader yields, each a list   *)
(* of str; a text file is its list of lines.                               *)
(***************************************************************************)
NoFile == [exists |-> FALSE, rows |-> <<>>]

File(rows) == [exists |-> TRUE, rows |-> rows]

NoLedger == [exists |-> FALSE, lines |-> <<>>]

Ledger(lines) == [exists |-> TRUE, lines |-> lines]

(***************************************************************************)
(* Import Pipeline and Reporting.                                          *)
(***************************************************************************)
RECURSIVE import_rows(_, _, _)
\* the loop of import_sales(Path): lines 209-217
import_rows(rows, region_code, imported_sales_list) ==
    IF rows = <<>> THEN [raised |-> "", list |-> imported_sales_list]
    ELSE LET body(r) ==
               LET data == [amount |-> r.amount,
                            sales_date |-> r.sales_date,
                            region |-> get_region_name(region_code)]
               IN  IF r.raised # ""
                   THEN [raised |-> r.raised, list |-> imported_sales_list]
                   ELSE import_rows(Tail(rows), region_code,
                                    Append(imported_sales_list, data))
         IN  body(correct_data_types(Head(rows)))

\* import_sales(filepath_name: Path) with filepath_name = FILEPATH / filename
import_sales_path(filename, file) ==
    IF ~file.exists THEN [raised |-> "FileNotFoundError", list |-> <<>>]
    ELSE import_rows(file.rows, get_region_code(PathName(filename)), <<>>)

\* sales_date.split('-')[1]: the text between the first "-" and the next one;
\* ok is FALSE when there is no "-" (IndexError)
SecondDashField(s) ==
    IF ~(\E i \in 1..Len(s) : s[i] = "-") THEN [ok |-> FALSE, text |-> <<>>]
    ELSE LET d1 == CHOOSE i \in 1..Len(s) : s[i] = "-" /\ \A j \in 1..(i - 1) : s[j] # "-"
             rest == SubSeq(s, d1 + 1, Len(s))
             d2 == IF \E i \in 1..Len(rest) : rest[i] = "-"
                   THEN CHOOSE i \in 1..Len(rest) :
                            rest[i] = "-" /\ \A j \in 1..(i - 1) : rest[j] # "-"
                   ELSE Len(rest) + 1
         IN  [ok |-> TRUE, text |-> SubSeq(rest, 1, d2 - 1)]

\* amount = float(sales['amount']); total += amount  (p01_m_sales_g08.py 284-285)
view_amount_g08(amount, total) ==
    IF amount.kind = "float" THEN [raised |-> "", total |-> total + amount.val]
    ELSE LET f == ParseFloat(amount.text)
         IN  IF f.ok THEN [raised |-> "", total |-> total + f.val]
             ELSE [raised |-> "ValueError", total |-> total]

\* if isinstance(sales['amount'], float): total += amount  (p01beg_m_sales.py 234-238)
view_amount_beg(amount, total) ==
    IF amount.kind = "float" THEN [raised |-> "", total |-> total + amount.val]
    ELSE [raised |-> "", total |-> total]

\* month = 0 if has_bad_date(sales) else int(sales_date.split('-')[1])
view_month(sales) ==
    IF has_bad_date(sales) THEN [raised |-> "", month |-> 0]
    ELSE LET part == SecondDashField(sales.sales_date)
         IN  IF ~part.ok THEN [raised |-> "IndexError", month |-> 0]
             ELSE IF ~ParseInt(part.text).ok THEN [raised |-> "ValueError", month |-> 0]
             ELSE [raised |-> "", month |-> ParseInt(part.text).val]

RECURSIVE view_rows(_, _, _, _)
\* the loop of view_sales
view_rows(v, list, bad_data_flag, total) ==
    IF list = <<>> THEN [raised |-> "", flag |-> bad_data_flag, total |-> total]
    ELSE LET sales == Head(list)
             flag == bad_data_flag \/ has_bad_data(sales) \/ has_bad_date(sales)
             a == IF v = "g08" THEN view_amount_g08(sales.amount, total)
                  ELSE view_amount_beg(sales.amount, total)
             m == view_month(sales)
         IN  IF a.raised # "" THEN [raised |-> a.raised, flag |-> flag, total |-> total]
             ELSE IF m.raised # "" THEN [raised |-> m.raised, flag |-> flag, total |-> a.total]
             ELSE view_rows(v, Tail(list), flag, a.total)

\* view_sales(sales_list) of module v: what it raises, returns and totals
view_sales(v, list) ==
    IF Len(list) = 0 THEN [raised |-> "", flag |-> FALSE, total |-> 0]
    ELSE view_rows(v, list, FALSE, 0)

(***************************************************************************)
(* Import Tracker.                                                         *)
(***************************************************************************)
RECURSIVE ledger_text(_)
\* the text of IMPORTED_FILES: each entry as add_imported_file wrote it, f"{name}\n"
ledger_text(lines) ==
    IF lines = <<>> THEN <<>>
    ELSE Head(lines) \o <<NewLine>> \o ledger_text(Tail(lines))

RECURSIVE split_from(_, _, _)
split_from(text, line, done) ==
    IF text = <<>> THEN (IF line = <<>> THEN done ELSE Append(done, line))
    ELSE IF Head(text) \in LineBoundaries
         THEN split_from(Tail(text), <<>>, Append(done, line))
         ELSE split_from(Tail(text), Append(line, Head(text)), done)

\* str.splitlines()
splitlines(text) == split_from(text, <<>>, <<>>)

\* already_imported(FILEPATH / filename) of module v
already_imported(v, led, filename) ==
    IF ~led.exists
    THEN IF v = "g08" THEN [raised |-> "FileNotFoundError", value |-> FALSE]
         ELSE [raised |-> "", value |-> FALSE]
    ELSE LET found(imported_files) ==
                 \E i \in 1..Len(imported_files) : imported_files[i] = PathName(filename)
         IN  [raised |-> "", value |-> found(splitlines(ledger_text(led.lines)))]

\* add_imported_file(FILEPATH / filename): open(..., 'a') creates the file
add_imported_file(led, filename) == Ledger(Append(led.lines, PathName(filename)))

(***************************************************************************)
(* Interactive import: import_sales(sales_list) once the file name is read.*)
(* file is the content of FILEPATH / filename at that moment.              *)
(***************************************************************************)
Outcome(list, led, msg, raised, opened, consulted) ==
    [sales_list |-> list, ledger |-> led, msg |-> msg, raised |-> raised,
     opened |-> opened, consulted |-> consulted]

\* the else branch merging and recording a batch of zero rows as well
import_and_merge_any_length(v, list, led, filename, file) ==
    LET viewed(imp, vw) ==
            IF vw.raised # "" THEN Outcome(list, led, "", vw.raised, TRUE, TRUE)
            ELSE IF vw.flag THEN Outcome(list, led, "contains bad data", "", TRUE, TRUE)
            ELSE Outcome(list \o imp.list, add_imported_file(led, filename),
                         "added to list", "", TRUE, TRUE)
        imported(imp) ==
            IF imp.raised # "" THEN Outcome(list, led, "", imp.raised, TRUE, TRUE)
            ELSE viewed(imp, view_sales(v, imp.list))
    IN  imported(import_sales_path(filename, file))

\* the else branch, lines 233-243
import_and_merge(v, list, led, filename, file) ==
    LET viewed(imp, vw) ==
            IF vw.raised # "" THEN Outcome(list, led, "", vw.raised, TRUE, TRUE)
            ELSE IF vw.flag THEN Outcome(list, led, "contains bad data", "", TRUE, TRUE)
            ELSE IF Len(imp.list) > 0
                 THEN Outcome(list \o imp.list, add_imported_file(led, filename),
                              "added to list", "", TRUE, TRUE)
                 ELSE Outcome(list, led, "", "", TRUE, TRUE)
        imported(imp) ==
            IF imp.raised # "" THEN Outcome(list, led, "", imp.raised, TRUE, TRUE)
            ELSE viewed(imp, view_sales(v, imp.list))
    IN  imported(import_sales_path(filename, file))

\* import_sales(sales_list) after filename = input(...): lines 225-243
import_sales_list(v, list, led, filename, file) ==
    IF ~is_valid_filename_format(filename)
    THEN Outcome(list, led, "bad format", "", FALSE, FALSE)
    ELSE IF ~is_valid_region(get_region_code(filename))
    THEN Outcome(list, led, "bad region", "", FALSE, FALSE)
    ELSE LET ai == already_imported(v, led, filename)
         IN  IF ai.raised # "" THEN Outcome(list, led, "", ai.raised, FALSE, TRUE)
             ELSE IF ai.value THEN Outcome(list, led, "already imported", "", FALSE, TRUE)
             ELSE import_and_merge(v, list, led, filename, file)

(***************************************************************************)
(* Bulk load and save.                                                     *)
(***************************************************************************)
RECURSIVE load_rows(_, _)
\* the loop of import_all_sales: lines 250-261
load_rows(rows, sales_data) ==
    IF rows = <<>> THEN [raised |-> "", list |-> sales_data]
    ELSE LET row == Head(rows)
             f == ParseFloat(Strip(row[1]))
             data == [amount |-> Float(f.val),
                      sales_date |-> Strip(row[2]),
                      region |-> get_region_name(Strip(row[3]))]
         IN  IF Len(row) < 3 THEN load_rows(Tail(rows), sales_data)
             ELSE IF Len(row) > 3 THEN [raised |-> "ValueError", list |-> sales_data]
             ELSE IF ~f.ok THEN [raised |-> "ValueError", list |-> sales_data]
             ELSE load_rows(Tail(rows), Append(sales_data, data))

\* import_all_sales() reading FILEPATH / ALL_SALES
import_all_sales(file) ==
    IF ~file.exists THEN [raised |-> "FileNotFoundError", list |-> <<>>]
    ELSE load_rows(file.rows, <<>>)

\* str(field) as csv.writer writes it
CsvField(value) == IF value.kind = "float" THEN FloatText(value.val) ELSE value.text

\* save_all_sales(sales_list): the rows written to ALL_SALES
save_all_sales(list) ==
    File([i \in 1..Len(list) |->
            <<CsvField(list[i].amount), list[i].sales_date, list[i].region>>])

(***************************************************************************)
(* Inputs of a session: what the user types and what the files hold.       *)
(***************************************************************************)
BoundedSeq(S, n) == UNION {[1..k -> S] : k \in 0..n}

F_w == <<"s", "a", "l", "e", "s", "_", "q", "1", "_", "2", "0", "2", "1", "_", "w", ".", "c", "s", "v">>

F_M == <<"s", "a", "l", "e", "s", "_", "q", "2", "_", "2", "0", "2", "1", "_", "M", ".", "c", "s", "v">>

F_dir == <<"s", "a", "l", "e", "s", "_", "q", "/", "_", "2", "0", "2", "1", "_", "e", ".", "c", "s", "v">>

\* 'sales_q' + form feed + '_2021_E.csv'
F_ff == <<"s", "a", "l", "e", "s", "_", "q", FormFeed, "_", "2", "0", "2", "1", "_", "E", ".", "c", "s", "v">>

F_x == <<"s", "a", "l", "e", "s", "_", "q", "1", "_", "2", "0", "2", "1", "_", "x", ".", "c", "s", "v">>

F_long == <<"s", "a", "l", "e", "s", "_", "q", "1", "_", "2", "0", "2", "1", "_", "w", "w", ".", "c", "s", "v">>

Filenames == {F_w, F_dir, F_ff, F_x, F_long}

T_100_5 == <<"1", "0", "0", ".", "5">>

T_neg5 == <<"-", "5">>

T_zero == <<"0">>

T_abc == <<"a", "b", "c">>

D_2021_04_15 == <<"2", "0", "2", "1", "-", "0", "4", "-", "1", "5">>

D_2024_02_29 == <<"2", "0", "2", "4", "-", "0", "2", "-", "2", "9">>

D_2024_02_30 == <<"2", "0", "2", "4", "-", "0", "2", "-", "3", "0">>

D_1999_01_01 == <<"1", "9", "9", "9", "-", "0", "1", "-", "0", "1">>

\* rows of an import file: a clean one, a bad amount, a bad date (30 February),
\* a negative amount
R_clean == <<T_100_5, D_2021_04_15>>

R_bad_amount == <<T_abc, D_2021_04_15>>

R_bad_date == <<T_100_5, D_2024_02_30>>

R_negative == <<T_neg5, D_2021_04_15>>

ImportRowSet == {R_clean, R_bad_amount, R_bad_date, R_negative}

\* the import files of a session: absent, empty, one row of each kind, and
\* two-row files that are clean throughout or bad in their last row
ImportFiles ==
    { NoFile, File(<<>>),
      File(<<R_clean>>), File(<<R_bad_amount>>), File(<<R_bad_date>>),
      File(<<R_negative>>),
      File(<<R_clean, R_bad_amount>>), File(<<R_clean, R_negative>>) }

StoreRowSet ==
    { <<T_100_5, D_2021_04_15, <<"w">> >>,
      << <<" ">> \o T_100_5 \o <<" ">>, BadMarker, <<" ", "M", " ">> >>,
      <<T_100_5, D_2021_04_15>>,
      <<T_abc, D_2021_04_15, <<"w">> >> }

\* the flat-file store at session start: absent, empty, or one row
InitStores == {NoFile, File(<<>>)} \cup {File(<<row>>) : row \in StoreRowSet}

InitLedgers == {NoLedger, Ledger(<<>>), Ledger(<<F_w>>)}

AmountEntries == {T_100_5, T_zero, T_abc}

YearEntries == {<<"2", "0", "2", "4">>, <<"1", "9", "9", "9">>, <<"x">>}

MonthEntries == {<<"2">>, <<"1", "3">>}

DayEntries == {<<"2", "9">>, <<"3", "0">>}

RegionEntries == {<<"E">>, <<"x">>}

DateEntries == {<<" ">> \o D_2024_02_29 \o <<" ">>, D_2024_02_30, D_1999_01_01}

\* A row of an import file as the data model reads it: the amount is bad when it
\* is no decimal number, the date when it is no calendar date yyyy-mm-dd.
BadAmountText(t) == ~ParseFloat(t).ok

BadDateText(d) ==
    ~(/\ Len(d) = 10
      /\ d[5] = "-" /\ d[8] = "-"
      /\ \A i \in {1, 2, 3, 4, 6, 7, 9, 10} : d[i] \in Digits
      /\ LET y == DecimalValue(SubSeq(d, 1, 4))
             m == DecimalValue(SubSeq(d, 6, 7))
             dd == DecimalValue(SubSeq(d, 9, 10))
             leap == (y % 4 = 0 /\ y % 100 # 0) \/ y % 400 = 0
             days == <<31, IF leap THEN 29 ELSE 28, 31, 30, 31, 30, 31, 31, 30, 31, 30, 31>>
         IN  m \in 1..12 /\ dd \in 1..days[m])

BadRow(row) == Len(row) < 2 \/ BadAmountText(row[1]) \/ BadDateText(row[2])

BadRows(rows) == Cardinality({i \in 1..Len(rows) : BadRow(rows[i])})

NoLocals == [amount |-> 0, year |-> 0, month |-> 0, day |-> 0, sales_date |-> <<>>]

\* rows and bad observe the file an import read: how many rows it held, and how
\* many of them BadRow (below) counts as bad
Last(op, fname, file, msg, raised, opened, consulted) ==
    [op |-> op, fname |-> fname, rows |-> Len(file.rows), bad |-> BadRows(file.rows),
     msg |-> msg, raised |-> raised, opened |-> opened, consulted |-> consulted,
     flag |-> FALSE, total |-> 0]

Said(op, msg, raised) == Last(op, <<>>, NoFile, msg, raised, FALSE, FALSE)

Aborted(raised) == IF raised # "" THEN "aborted" ELSE "menu"

(***************************************************************************)
(* The session.                                                            *)
(***************************************************************************)
Init ==
    /\ variant \in {"g08", "beg"}
    /\ pc = "boot"
    /\ sales_list = <<>>
    /\ ledger \in InitLedgers
    /\ store \in InitStores
    /\ locals = NoLocals
    /\ last = Said("start", "", "")
    /\ succeeded = {}
    /\ arg = <<>>
    /\ ret = <<>>

\* sales_list = import_all_sales() at the start of main()
ImportAllSales ==
    /\ pc = "boot"
    /\ LET r == import_all_sales(store)
       IN  /\ sales_list' = (IF r.raised = "" THEN r.list ELSE <<>>)
           /\ pc' = Aborted(r.raised)
           /\ last' = Said("import_all_sales", "", r.raised)
    /\ UNCHANGED <<variant, ledger, store, locals,
                   succeeded, arg, ret>>

\* import_sales(sales_list): the file name typed and the file it names
ImportSales(filename, file) ==
    /\ pc = "menu"
    /\ \E r \in {import_sales_list(variant, sales_list, ledger, filename, file)} :
           /\ Len(r.sales_list) <= MaxSales
           /\ r.opened \/ file = NoFile
           /\ sales_list' = r.sales_list
           /\ ledger' = r.ledger
           /\ pc' = Aborted(r.raised)
           /\ last' = Last("import_sales", filename, file,
                           r.msg, r.raised, r.opened, r.consulted)
           /\ succeeded' = (IF r.msg = "added to list" THEN succeeded \cup {filename}
                            ELSE succeeded)
    /\ UNCHANGED <<variant, store, locals, arg, ret>>

\* view_sales(sales_list)
ViewSales ==
    /\ pc = "menu"
    /\ LET r == view_sales(variant, sales_list)
       IN  /\ pc' = Aborted(r.raised)
           /\ last' = [Said("view_sales", "", r.raised) EXCEPT
                          !.flag = r.flag, !.total = r.total]
    /\ UNCHANGED <<variant, sales_list, ledger, store, locals, succeeded, arg, ret>>

\* save_all_sales(sales_list): ALL_SALES is relative to the working directory,
\* which is taken to be FILEPATH, where import_all_sales reads it
SaveAllSales ==
    /\ pc = "menu"
    /\ store' = save_all_sales(sales_list)
    /\ last' = Said("save_all_sales", "saved", "")
    /\ UNCHANGED <<variant, pc, sales_list, ledger, locals,
                   succeeded, arg, ret>>

(***************************************************************************)
(* Manual entry: add_sales1 and add_sales2, one step per input() call.     *)
(***************************************************************************)
\* one pass of the loop of input_amount on the text typed
input_amount(entry) ==
    LET f == ParseFloat(entry)
    IN  IF ~f.ok THEN [status |-> "raise", val |-> 0]
        ELSE IF f.val > 0 THEN [status |-> "return", val |-> f.val]
        ELSE [status |-> "again", val |-> 0]

\* one pass of the loop of input_int on the text typed
input_int(entry, high, low) ==
    LET n == ParseInt(entry)
    IN  IF ~n.ok THEN [status |-> "raise", val |-> 0]
        ELSE IF low <= n.val /\ n.val <= high THEN [status |-> "return", val |-> n.val]
        ELSE [status |-> "again", val |-> 0]

\* one pass of the loop of input_date on the text typed
input_date(typed) ==
    LET entry == Strip(typed)
    IN  IF DateShape(entry)
        THEN IF ~DateIntsOk(entry) THEN [status |-> "raise", val |-> entry]
             ELSE IF DateDayOk(entry)
                  THEN IF MIN_YEAR <= DecimalValue(Slice(entry, 0, 4))
                          /\ DecimalValue(Slice(entry, 0, 4)) <= MAX_YEAR
                       THEN [status |-> "return", val |-> entry]
                       ELSE [status |-> "again", val |-> entry]
                  ELSE [status |-> "again", val |-> entry]
        ELSE [status |-> "again", val |-> entry]

\* one pass of the loop of input_region_code on the text typed
input_region_code(typed) ==
    LET code == Lower(typed)
    IN  IF code \in VALID_REGION_CODES THEN [status |-> "return", val |-> code]
        ELSE [status |-> "again", val |-> code]

\* where a prompt leaves the session: on, at the same prompt, or ended
After(status, here, next) ==
    IF status = "return" THEN next ELSE IF status = "again" THEN here ELSE "aborted"

Prompted(op, status) ==
    Said(op, IF status = "again" THEN "enter again" ELSE "",
         IF status = "raise" THEN "ValueError" ELSE "")

\* add_sales1(sales_list) is called and waits at input_amount
AddSales1 ==
    /\ pc = "menu"
    /\ Len(sales_list) < MaxSales
    /\ pc' = "a1_amount"
    /\ locals' = NoLocals
    /\ last' = Said("add_sales1", "", "")
    /\ UNCHANGED <<variant, sales_list, ledger, store, succeeded, arg, ret>>

\* add_sales2(sales_list) is called and waits at input_amount
AddSales2 ==
    /\ pc = "menu"
    /\ Len(sales_list) < MaxSales
    /\ pc' = "a2_amount"
    /\ locals' = NoLocals
    /\ last' = Said("add_sales2", "", "")
    /\ UNCHANGED <<variant, sales_list, ledger, store, succeeded, arg, ret>>

InputAmount(entry) ==
    /\ pc \in {"a1_amount", "a2_amount"}
    /\ LET r == input_amount(entry)
       IN  /\ pc' = After(r.status, pc, IF pc = "a1_amount" THEN "a1_year" ELSE "a2_date")
           /\ locals' = (IF r.status = "return" THEN [locals EXCEPT !.amount = r.val]
                         ELSE locals)
           /\ last' = Prompted("input_amount", r.status)
    /\ UNCHANGED <<variant, sales_list, ledger, store, succeeded, arg, ret>>

InputYear(entry) ==
    /\ pc = "a1_year"
    /\ LET r == input_int(entry, MAX_YEAR, MIN_YEAR)
       IN  /\ pc' = After(r.status, pc, "a1_month")
           /\ locals' = (IF r.status = "return" THEN [locals EXCEPT !.year = r.val]
                         ELSE locals)
           /\ last' = Prompted("input_year", r.status)
    /\ UNCHANGED <<variant, sales_list, ledger, store, succeeded, arg, ret>>

InputMonth(entry) ==
    /\ pc = "a1_month"
    /\ LET r == input_int(entry, 12, 1)
       IN  /\ pc' = After(r.status, pc, "a1_day")
           /\ locals' = (IF r.status = "return" THEN [locals EXCEPT !.month = r.val]
                         ELSE locals)
           /\ last' = Prompted("input_month", r.status)
    /\ UNCHANGED <<variant, sales_list, ledger, store, succeeded, arg, ret>>

InputDay(entry) ==
    /\ pc = "a1_day"
    /\ LET r == input_int(entry, cal_max_day(locals.year, locals.month), 1)
       IN  /\ pc' = After(r.status, pc, "a1_region")
           /\ locals' = (IF r.status = "return" THEN [locals EXCEPT !.day = r.val]
                         ELSE locals)
           /\ last' = Prompted("input_day", r.status)
    /\ UNCHANGED <<variant, sales_list, ledger, store, succeeded, arg, ret>>

InputDate(entry) ==
    /\ pc = "a2_date"
    /\ LET r == input_date(entry)
       IN  /\ pc' = After(r.status, pc, "a2_region")
           /\ locals' = (IF r.status = "return" THEN [locals EXCEPT !.sales_date = r.val]
                         ELSE locals)
           /\ last' = Prompted("input_date", r.status)
    /\ UNCHANGED <<variant, sales_list, ledger, store, succeeded, arg, ret>>

\* the dict add_sales1 / add_sales2 appends once the region code is read
sales_data(at, loc, region_code) ==
    [amount |-> Float(loc.amount),
     sales_date |-> IF at = "a1_region"
                    THEN NatText(loc.year) \o <<"-">> \o Pad2(loc.month)
                         \o <<"-">> \o Pad2(loc.day)
                    ELSE loc.sales_date,
     region |-> VALID_REGIONS(region_code)]

\* the last prompt of add_sales1 / add_sales2, and sales_list.append(sales_data)
InputRegionCode(entry) ==
    /\ pc \in {"a1_region", "a2_region"}
    /\ LET r == input_region_code(entry)
       IN  /\ pc' = After(r.status, pc, "menu")
           /\ sales_list' = (IF r.status = "return"
                             THEN Append(sales_list, sales_data(pc, locals, r.val))
                             ELSE sales_list)
           /\ locals' = (IF r.status = "return" THEN NoLocals ELSE locals)
           /\ last' = Said("input_region_code",
                           IF r.status = "return" THEN "is added" ELSE "enter again", "")
    /\ UNCHANGED <<variant, ledger, store, succeeded, arg, ret>>

Next ==
    \/ ImportAllSales
    \/ \E filename \in Filenames, file \in ImportFiles : ImportSales(filename, file)
    \/ ViewSales
    \/ AddSales1
    \/ AddSales2
    \/ \E entry \in AmountEntries : InputAmount(entry)
    \/ \E entry \in YearEntries : InputYear(entry)
    \/ \E entry \in MonthEntries : InputMonth(entry)
    \/ \E entry \in DayEntries : InputDay(entry)
    \/ \E entry \in DateEntries : InputDate(entry)
    \/ \E entry \in RegionEntries : InputRegionCode(entry)

Spec == Init /\ [][Next]_vars

(***************************************************************************)
(* Claims about the session (specification Spec).                          *)
(***************************************************************************)
\* The gates as the specification words them, written without the code's
\* operators: the shape of 'sales_qn_yyyy_r.csv' and the region letter.
ShapeOk(f) ==
    /\ Len(f) = 19
    /\ SubSeq(f, 1, 7) = <<"s", "a", "l", "e", "s", "_", "q">>
    /\ f[9] = "_"
    /\ f[14] = "_"
    /\ SubSeq(f, 16, 19) = <<".", "c", "s", "v">>

RegionOk(f) == LowerChar(f[15]) \in {"w", "m", "c", "e"}

RECURSIVE BaseName(_)
\* the file name without its directories
BaseName(f) ==
    IF \A i \in 1..Len(f) : f[i] # "/" THEN f
    ELSE BaseName(Tail(f))

InLedger(led, f) == \E i \in 1..Len(led.lines) : led.lines[i] = BaseName(f)

ImportStep == last'.op = "import_sales"

Untouched == sales_list' = sales_list /\ ledger' = ledger

\* C1: an interactive import that read a file with at least one bad row ends
\* with the 'contains bad data' rejection and leaves the collection and the
\* ledger as they were, in both module variants.
C1_NoPartialMerge ==
    [][(ImportStep /\ last'.opened /\ last'.bad > 0)
         => (last'.msg = "contains bad data" /\ last'.raised = "" /\ Untouched)]_vars

\* C2: once an interactive import of f has merged (and its name is in the
\* ledger), every later interactive import of f is rejected as already
\* imported, does not open the file, and changes neither collection nor ledger.
C2_MergedAtMostOnce ==
    /\ [](\A f \in succeeded : InLedger(ledger, f))
    /\ [][(ImportStep /\ last'.fname \in succeeded)
            => (/\ last'.msg = "already imported"
                /\ last'.raised = ""
                /\ ~last'.opened
                /\ Untouched)]_vars

\* C3: no record of the sales collection carries the bad marker '?' as its
\* amount or as its sales_date.
C3_NoBadMarkerInCollection ==
    \A i \in 1..Len(sales_list) :
        /\ sales_list[i].amount # Str(BadMarker)
        /\ sales_list[i].sales_date # BadMarker

\* C5: every record of the sales collection has a strictly positive amount.
C5_AmountsPositive ==
    \A i \in 1..Len(sales_list) :
        sales_list[i].amount.kind = "float" /\ sales_list[i].amount.val > 0

\* C8: already_imported takes a missing ledger file for an empty ledger (no
\* error, the import goes on to read the file), and with a ledger file it is
\* true exactly when the base name is one of its lines; in both variants.
C8_MissingLedgerIsEmpty ==
    [][(ImportStep /\ ShapeOk(last'.fname) /\ RegionOk(last'.fname))
         => IF ledger.exists
            THEN (last'.msg = "already imported") <=> InLedger(ledger, last'.fname)
            ELSE last'.raised # "FileNotFoundError" \/ last'.opened]_vars

\* C10: the gates apply in the order shape, region, ledger, import: the file is
\* opened only for a name of valid shape and region that is not in the ledger;
\* a name failing a gate gets that gate's message and no later gate is
\* evaluated; a gate rejection changes neither collection nor ledger.
C10_GateOrder ==
    [][ImportStep =>
         LET f == last'.fname
             shape == ShapeOk(f)
             region == shape /\ RegionOk(f)
             fresh == region /\ ~InLedger(ledger, f)
         IN  /\ last'.opened => fresh
             /\ ~shape => (last'.msg = "bad format" /\ ~last'.consulted /\ ~last'.opened)
             /\ (shape /\ ~region)
                  => (last'.msg = "bad region" /\ ~last'.consulted /\ ~last'.opened)
             /\ (region /\ ledger.exists /\ ~fresh)
                  => (last'.msg = "already imported" /\ last'.consulted /\ ~last'.opened)
             /\ last'.msg \in {"bad format", "bad region", "already imported"}
                  => Untouched]_vars

\* C11: an interactive import that passed the gates and read a file of zero
\* rows raises nothing, prints no result and leaves the collection and the
\* ledger as they were (the name is not added); an import of the same name
\* right after it is not rejected as already imported and opens the file.
C11_EmptyFileChangesNothing ==
    [][/\ (ImportStep /\ last'.opened /\ last'.rows = 0
              /\ last'.raised # "FileNotFoundError")
            => (/\ Untouched
                /\ last'.raised = ""
                /\ last'.msg = "")
       /\ (/\ last.op = "import_sales" /\ last.opened /\ last.rows = 0
           /\ last.raised = ""
           /\ ImportStep /\ last'.fname = last.fname)
            => (last'.opened /\ last'.msg # "already imported")]_vars

\* C11's case: a session that holds records and a ledger has just imported an
\* empty file under an accepted name.
C11_Witness ==
    /\ last.op = "import_sales"
    /\ last.opened
    /\ last.rows = 0
    /\ last.raised = ""
    /\ last.msg = ""
    /\ Len(sales_list) > 0
    /\ ledger.exists

PromptOps == {"input_amount", "input_year", "input_month", "input_day"}

\* C13: no entry typed at a numeric prompt (input_amount, input_year,
\* input_month, input_day) raises an error: the prompt either returns a valid
\* value or asks again, and the session goes on.
C13_PromptsNeverRaise ==
    [][last'.op \in PromptOps => (last'.raised = "" /\ pc' # "aborted")]_vars

NoRepeatedLine(lines) ==
    \A i, j \in 1..Len(lines) : i # j => lines[i] # lines[j]

IsPrefix(s, t) == Len(s) <= Len(t) /\ SubSeq(t, 1, Len(s)) = s

\* C15: starting from a ledger with no repeated line, the ledger never holds
\* the same name twice; a step keeps its earlier lines in place; and a step
\* that adds a line is an interactive import that adds the base name of its
\* file, whose rows were all clean, at least one, and appended to the
\* collection by that same step.
C15_LedgerInvariant ==
    /\ [](NoRepeatedLine(ledger.lines))
    /\ [][/\ IsPrefix(ledger.lines, ledger'.lines)
           /\ ledger' # ledger
                => (/\ ImportStep
                    /\ ledger'.lines = Append(ledger.lines, BaseName(last'.fname))
                    /\ last'.opened
                    /\ last'.rows > 0
                    /\ last'.bad = 0
                    /\ IsPrefix(sales_list, sales_list')
                    /\ Len(sales_list') = Len(sales_list) + last'.rows)]_vars

(***************************************************************************)
(* Row coercion and import-from-path on their own (specification           *)
(* SpecCoerce): the row, or the file, is drawn by Init.                    *)
(***************************************************************************)
YearTexts ==
    { <<"1", "9", "9", "9">>, <<"2", "0", "0", "0">>, <<"2", "0", "2", "3">>,
      <<"2", "0", "2", "4">>, <<"2", "9", "9", "9">>, <<"3", "0", "0", "0">>,
      <<"2", "0", "x", "1">>, <<"2", "0", SuperscriptTwo, "1">> }

MonthTexts == { <<"0", "0">>, <<"0", "1">>, <<"0", "2">>, <<"0", "4">>, <<"1", "2">>,
                <<"1", "3">> }

DayTexts == { <<"0", "0">>, <<"0", "1">>, <<"2", "8">>, <<"2", "9">>, <<"3", "0">>,
              <<"3", "1">>, <<"3", "2">> }

CoerceDates ==
    {y \o <<sep>> \o m \o <<"-">> \o d :
        y \in YearTexts, sep \in {"-", "/"}, m \in MonthTexts, d \in DayTexts}
    \cup {BadMarker, <<>>, <<"2", "0", "2", "1", "-", "4", "-", "1", "5">>,
          D_2021_04_15 \o <<" ">>}

CoerceRows ==
    {<<a, d>> : a \in {T_100_5, T_abc}, d \in CoerceDates}
    \cup {<<>>, <<T_100_5>>, <<T_100_5, D_2021_04_15, <<"w">> >>}

PathRowSet == ImportRowSet \cup {<<>>, <<T_100_5>>}

PathFiles == {NoFile} \cup {File(rows) : rows \in BoundedSeq(PathRowSet, MaxRows)}

InitCoerce ==
    /\ variant \in {"g08", "beg"}
    /\ \/ pc = "call_coerce" /\ arg \in CoerceRows
       \/ pc = "call_import" /\ arg \in [filename : {F_w, F_dir}, file : PathFiles]
    /\ sales_list = <<>>
    /\ ledger = NoLedger
    /\ store = NoFile
    /\ locals = NoLocals
    /\ last = Said("start", "", "")
    /\ succeeded = {}
    /\ ret = <<>>

\* correct_data_types(row)
CorrectDataTypes ==
    /\ pc = "call_coerce"
    /\ ret' = correct_data_types(arg)
    /\ pc' = "done_coerce"
    /\ UNCHANGED <<variant, sales_list, ledger, store, locals, last, succeeded, arg>>

\* import_sales(FILEPATH / filename)
ImportFromPath ==
    /\ pc = "call_import"
    /\ ret' = import_sales_path(arg.filename, arg.file)
    /\ pc' = "done_import"
    /\ UNCHANGED <<variant, sales_list, ledger, store, locals, last, succeeded, arg>>

NextCoerce == CorrectDataTypes \/ ImportFromPath

SpecCoerce == InitCoerce /\ [][NextCoerce]_vars

\* isValidDateString of the specification: a calendar date yyyy-mm-dd whose
\* year is in 2000..2999
ValidDateString(d) ==
    ~BadDateText(d) /\ DecimalValue(SubSeq(d, 1, 4)) \in 2000..2999

\* C4: correct_data_types leaves the date unmarked exactly when the date
\* string is valid per the date validator (year in 2000..2999 included), and
\* marks every other date string bad.
C4_DateMarkedIffInvalid ==
    (pc = "done_coerce" /\ Len(arg) >= 2 /\ ret.raised = "")
      => IF ValidDateString(arg[2]) THEN ret.sales_date = arg[2]
         ELSE ret.sales_date = BadMarker

\* C9: correct_data_types never raises for malformed row content, and
\* import-from-path returns one record per row of the file.
C9_CoercionNeverRaises ==
    /\ pc = "done_coerce" => ret.raised = ""
    /\ (pc = "done_import" /\ arg.file.exists)
         => (ret.raised = "" /\ Len(ret.list) = Len(arg.file.rows))

(***************************************************************************)
(* Reporting on its own (specification SpecView): the collection is drawn  *)
(* by Init from records whose fields are valid or the bad marker.          *)
(***************************************************************************)
ViewRecords ==
    [amount : {Float(10000), Float(5000), Str(BadMarker)},
     sales_date : {D_2021_04_15, BadMarker},
     region : {West}]

InitView ==
    /\ variant \in {"g08", "beg"}
    /\ pc = "menu"
    /\ sales_list \in BoundedSeq(ViewRecords, MaxView)
    /\ ledger = NoLedger
    /\ store = NoFile
    /\ locals = NoLocals
    /\ last = Said("start", "", "")
    /\ succeeded = {}
    /\ arg = <<>>
    /\ ret = <<>>

NextView == ViewSales

SpecView == InitView /\ [][NextView]_vars

RECURSIVE SumOfValid(_)
\* the sum of the amounts that are numbers
SumOfValid(list) ==
    IF list = <<>> THEN 0
    ELSE (IF Head(list).amount.kind = "float" THEN Head(list).amount.val ELSE 0)
         + SumOfValid(Tail(list))

\* C7: view_sales completes without raising, totals exactly the amounts that
\* are valid numbers, and returns true exactly when some record has a bad
\* amount or a bad date; in both module variants.
C7_ViewTotalsValid ==
    last.op = "view_sales"
      => /\ last.raised = ""
         /\ last.total = SumOfValid(sales_list)
         /\ last.flag <=> \E i \in 1..Len(sales_list) :
                             \/ sales_list[i].amount = Str(BadMarker)
                             \/ sales_list[i].sales_date = BadMarker

(***************************************************************************)
(* Save and load again (specification SpecRoundTrip): a session holding a  *)
(* clean collection saves it, ends, and the next session loads the file.   *)
(***************************************************************************)
CleanRecords ==
    [amount : {Float(10050), Float(1200), Float(25)},
     sales_date : {D_2021_04_15, D_2024_02_29},
     region : {West, Mountain, Central, East}]

InitRoundTrip ==
    /\ variant \in {"g08", "beg"}
    /\ pc = "menu"
    /\ sales_list \in BoundedSeq(CleanRecords, MaxSaved)
    /\ arg = sales_list
    /\ ledger = NoLedger
    /\ store = NoFile
    /\ locals = NoLocals
    /\ last = Said("start", "", "")
    /\ succeeded = {}
    /\ ret = <<>>

\* main() returns and is run again: the collection of the new session is empty
\* until import_all_sales() fills it
Restart ==
    /\ pc = "menu"
    /\ pc' = "boot"
    /\ sales_list' = <<>>
    /\ last' = Said("main", "", "")
    /\ UNCHANGED <<variant, ledger, store, locals, succeeded, arg, ret>>

NextRoundTrip == SaveAllSales \/ Restart \/ ImportAllSales

SpecRoundTrip == InitRoundTrip /\ [][NextRoundTrip]_vars

\* C6: a clean collection written by save_all_sales and loaded again by
\* import_all_sales comes back with equal amounts, the same date strings and
\* the same region names, in the same positions.
C6_RoundTrip ==
    (last.op = "import_all_sales" /\ store = save_all_sales(arg))
      => /\ last.raised = ""
         /\ Len(sales_list) = Len(arg)
         /\ \A i \in 1..Len(arg) :
               /\ sales_list[i].amount.val = arg[i].amount.val
               /\ sales_list[i].sales_date = arg[i].sales_date
               /\ sales_list[i].region = arg[i].region

(***************************************************************************)
(* File-name parsing and the calendar on their own (specification          *)
(* SpecParse): the name, or the year and month, is drawn by Init.          *)
(***************************************************************************)
MaxCalYear == 2404   \* last year given to is_leap_year and cal_max_day

\* names one character away from a valid one, its prefixes, and longer names
FilenameTexts ==
    {[F_w EXCEPT ![i] = c] : i \in 1..Len(F_w), c \in {"x", "_", "W", "M", "9", "."}}
    \cup {SubSeq(F_w, 1, k) : k \in 0..Len(F_w)}
    \cup {F_w \o <<"v">>, F_M, F_dir, F_x, F_long}

CalendarInputs == [year : 1896..MaxCalYear, month : 1..12]

InitParse ==
    /\ variant \in {"g08", "beg"}
    /\ \/ pc = "call_filename" /\ arg \in FilenameTexts
       \/ pc = "call_max_day" /\ arg \in CalendarInputs
    /\ sales_list = <<>>
    /\ ledger = NoLedger
    /\ store = NoFile
    /\ locals = NoLocals
    /\ last = Said("start", "", "")
    /\ succeeded = {}
    /\ ret = <<>>

\* is_valid_filename_format(filename), get_region_code(filename) and the
\* region gate is_valid_region(get_region_code(filename))
ParseFilename ==
    /\ pc = "call_filename"
    /\ ret' = [valid |-> is_valid_filename_format(arg),
               region_code |-> get_region_code(arg),
               accepted |-> is_valid_region(get_region_code(arg))]
    /\ pc' = "done_filename"
    /\ UNCHANGED <<variant, sales_list, ledger, store, locals, last, succeeded, arg>>

\* is_leap_year(year) and cal_max_day(year, month)
CalMaxDay ==
    /\ pc = "call_max_day"
    /\ ret' = [leap |-> is_leap_year(arg.year),
               max_day |-> cal_max_day(arg.year, arg.month)]
    /\ pc' = "done_max_day"
    /\ UNCHANGED <<variant, sales_list, ledger, store, locals, last, succeeded, arg>>

NextParse == ParseFilename \/ CalMaxDay

SpecParse == InitParse /\ [][NextParse]_vars

\* C12: is_valid_filename_format is true exactly for a name of 19 characters
\* that starts with 'sales_q', has '_' at index 8 and 13 and ends with '.csv';
\* get_region_code is the lower-cased character at index 14 of such a name and
\* 'INVALID' for any other; an upper-case W is accepted as region w.
C12_FilenameParsing ==
    pc = "done_filename"
      => /\ ret.valid <=> ShapeOk(arg)
         /\ ret.region_code = (IF ShapeOk(arg) THEN <<LowerChar(arg[15])>> ELSE INVALID)
         /\ (ShapeOk(arg) /\ arg[15] = "W") => (ret.region_code = <<"w">> /\ ret.accepted)

\* C12's case: a valid name whose region letter is the upper-case W was parsed.
C12_Witness ==
    /\ pc = "done_filename"
    /\ Len(arg) = 19
    /\ arg[15] = "W"
    /\ ret.valid
    /\ ret.region_code = <<"w">>

GregorianLeap(y) == y % 400 = 0 \/ (y % 4 = 0 /\ y % 100 # 0)

GregorianDays(y, m) ==
    <<31, IF GregorianLeap(y) THEN 29 ELSE 28, 31, 30, 31, 30, 31, 31, 30, 31, 30, 31>>[m]

\* C14: for every year and every month 1..12, is_leap_year follows the
\* Gregorian rule and cal_max_day is the number of days of the month.
C14_MaxDayIsGregorian ==
    pc = "done_max_day"
      => /\ ret.leap <=> GregorianLeap(arg.year)
         /\ ret.max_day = GregorianDays(arg.year, arg.month)

\* C14's case: February of 1900, a year divisible by 100 and not by 400.
C14_Witness ==
    /\ pc = "done_max_day"
    /\ arg.year = 1900
    /\ arg.month = 2
    /\ ~ret.leap
    /\ ret.max_day = 28

====
